---- MODULE Spec2Model ----
(***************************************************************************)
(* Model of the bacon command line driver (src/bacon/src/main.rs): the     *)
(* generate loop with its PrintCallback, and the batch size optimizer.     *)
(* The search engine (agvg::bacon: Context, Runner, the alignment helper)  *)
(* is a collaborator whose code is not in main.rs; it is modelled from its *)
(* documented contract.                                                    *)
(***************************************************************************)
EXTENDS Integers, Sequences, FiniteSets, TLC

\* ---------------------------------------------------------------- bounds
\* largest --min / --max argument explored
MaxArg == 2
\* largest preferred_multiple explored
MaxMultiple == 2
\* device capacity behind max_batch_size (explored as one value)
DeviceCapacity == 2
\* largest raw random draw explored (rand::random::<usize>())
MaxRnd == 2
\* step() calls explored per Runner
MaxSteps == 5
\* trials explored in the unbounded random-sampling loop
MaxTrials == 1
\* clock resolution: ticks per second of the modelled Instant
TicksPerSec == 2
\* largest clock advance during one step(), in ticks
MaxDt == 1
\* largest --count explored
MaxCount == 2
\* matches one step() may come across
MaxMatches == 2
\* batch size the engine picks when asked for batch 0
DefaultBatch == 1

VARIABLES
    cmd,                 \* Cli variant chosen in main
    args,                \* the parsed command (GenerateCommand / OptimizeCommand)
    ctx,                 \* Context: preferred_multiple, device
    pc,                  \* position of the single driver thread
    from_batch_size, to_batch_size, current_batch_size,
    best_batch_size, best_performance,
    runner,              \* the Runner currently owned by the driver
    preheat_processed, total, elapsed,
    last,                \* the pair returned by the latest step()
    cb,                  \* PrintCallback bound to the generate Runner
    f,                   \* optimizer's csv writer
    stdout,              \* lines printed
    trials,              \* history: batch sizes handed to init.prepare
    samples              \* history: (batch_size, performance) of finalized trials

vars == <<cmd, args, ctx, pc, from_batch_size, to_batch_size, current_batch_size,
          best_batch_size, best_performance, runner, preheat_processed, total,
          elapsed, last, cb, f, stdout, trials, samples>>

\* ------------------------------------------------------- engine (agvg::bacon)
\* a rounding that always moves to the next multiple, also from a multiple
align_always_up(x, m) == (x \div m + 1) * m

\* align_to_preferred_multiple: round x up to the nearest multiple of m
align_to_preferred_multiple(x, m) == ((x + m - 1) \div m) * m

\* max_batch_size: the largest feasible batch size of the device, a multiple of m
max_batch_size(device, m) == (device \div m) * m

NoRunner == [alive |-> FALSE, batch_size |-> 0, steps |-> 0, sink |-> FALSE,
             stopped |-> FALSE, pending |-> 0, processed |-> 0, exhausted |-> FALSE]

\* PreparedSearch::prepare: a fresh Runner; batch 0 asks for the engine's default
prepare(batch, withSink) ==
    [alive |-> TRUE,
     batch_size |-> IF batch = 0 THEN DefaultBatch ELSE batch,
     steps |-> 0, sink |-> withSink, stopped |-> FALSE,
     pending |-> 0, processed |-> 0, exhausted |-> FALSE]

\* what one step() may report as processed
ProcessedChoices(r) == {0, r.batch_size}

\* ------------------------------------------------------------- f64 values
RECURSIVE GCD(_, _)
GCD(a, b) == IF b = 0 THEN a ELSE GCD(b, a % b)

\* a non-negative f64 as a reduced fraction n/d
Frac(n, d) == LET g == GCD(n, d) IN [n |-> n \div g, d |-> d \div g]
Zero == [n |-> 0, d |-> 1]
FracGt(a, b) == a.n * b.d > b.n * a.d
FracGe(a, b) == a.n * b.d >= b.n * a.d
\* `x as usize`
AsUsize(a) == a.n \div a.d

NoWriter == [open |-> FALSE, buf |-> <<>>, file |-> <<>>]
NewWriter == [open |-> TRUE, buf |-> <<>>, file |-> <<>>]
write_record(w, rec) == [w EXCEPT !.buf = Append(@, rec)]
flush(w) == [w EXCEPT !.file = @ \o w.buf, !.buf = <<>>]

NoCallback == [print |-> FALSE, writer |-> NoWriter, found |-> 0, count |-> 0]
NoStep == [processed |-> 0, done |-> FALSE]

\* ------------------------------------------------------------------ main
GenerateArgs == [batch : {0, 2}, count : 0..MaxCount, benchmark : BOOLEAN,
                 output : BOOLEAN]
OptimizeArgs == [min : 0..MaxArg, max : 0..MaxArg, ordered : BOOLEAN,
                 output : BOOLEAN, all : BOOLEAN]

\* generate never reads ctx.preferred_multiple: one value stands for all
Init ==
    /\ cmd \in {"generate", "optimize"}
    /\ args \in IF cmd = "generate" THEN GenerateArgs ELSE OptimizeArgs
    /\ ctx \in [preferred_multiple : IF cmd = "generate" THEN {1} ELSE 1..MaxMultiple,
                 device : {DeviceCapacity}]
    /\ pc = "main"
    /\ from_batch_size = 0 /\ to_batch_size = 0 /\ current_batch_size = 0
    /\ best_batch_size = 0 /\ best_performance = Zero
    /\ runner = NoRunner
    /\ preheat_processed = 0 /\ total = 0 /\ elapsed = 0
    /\ last = NoStep
    /\ cb = NoCallback
    /\ f = NoWriter
    /\ stdout = <<>>
    /\ trials = <<>>
    /\ samples = <<>>

\* ------------------------------------------------------------ optimize
\* lines 217-220: --max 0 stands for the device maximum
to_batch_size_of(max, c) ==
    IF max = 0 THEN max_batch_size(c.device, c.preferred_multiple)
    ELSE align_to_preferred_multiple(max, c.preferred_multiple)

\* lines 195-232: everything optimize does before its outer loop
optimize_setup ==
    /\ pc = "main" /\ cmd = "optimize"
    /\ from_batch_size' = align_to_preferred_multiple(args.min, ctx.preferred_multiple)
    /\ to_batch_size' = to_batch_size_of(args.max, ctx)
    /\ current_batch_size' = from_batch_size'
    /\ best_batch_size' = 0
    /\ best_performance' = Zero
    /\ f' = IF args.output THEN NewWriter ELSE NoWriter
    /\ pc' = "loop"
    /\ UNCHANGED <<cmd, args, ctx, runner, preheat_processed, total, elapsed, last,
                   cb, stdout, trials, samples>>

\* the offset without the zero-width arm: the draw itself
random_val_unguarded(rnd, from, to) ==
    IF to > from THEN rnd % (to - from) ELSE rnd

\* lines 238-241: the random offset; with to < from the usize subtraction wraps
\* (release build) to a modulus larger than every draw explored
random_val(rnd, from, to) ==
    IF to = from THEN 0
    ELSE IF to > from THEN rnd % (to - from)
    ELSE rnd

\* the candidate taken as drawn, without the second alignment
random_batch_size_unaligned(val, from, m) == val + from

\* lines 243-244: the random candidate is re-aligned
random_batch_size(val, from, m) == align_to_preferred_multiple(val + from, m)

\* lines 247-257: build the trial's Runner (no sink), reset the counters
start_trial(batch) ==
    /\ runner' = prepare(batch, FALSE)
    /\ total' = 0
    /\ preheat_processed' = 0
    /\ trials' = Append(trials, batch)
    /\ pc' = "preheat"

\* the sweep written as a while loop: the bound is tested before the trial
select_ordered_checked ==
    /\ pc = "loop" /\ args.ordered
    /\ IF current_batch_size > to_batch_size
       THEN /\ pc' = "report"
            /\ UNCHANGED <<runner, total, preheat_processed, trials>>
       ELSE start_trial(current_batch_size)
    /\ UNCHANGED <<cmd, args, ctx, from_batch_size, to_batch_size, current_batch_size,
                   best_batch_size, best_performance, elapsed, last, cb, f, stdout,
                   samples>>

\* lines 235-257, ordered: the trial runs at current_batch_size
select_ordered ==
    /\ pc = "loop" /\ args.ordered
    /\ start_trial(current_batch_size)
    /\ UNCHANGED <<cmd, args, ctx, from_batch_size, to_batch_size, current_batch_size,
                   best_batch_size, best_performance, elapsed, last, cb, f, stdout,
                   samples>>

\* lines 235-257, random sampling
select_random ==
    /\ pc = "loop" /\ ~args.ordered
    /\ Len(trials) < MaxTrials
    /\ \E rnd \in 0..MaxRnd :
         /\ current_batch_size' =
                random_batch_size(random_val(rnd, from_batch_size, to_batch_size),
                                  from_batch_size, ctx.preferred_multiple)
         /\ start_trial(current_batch_size')
    /\ UNCHANGED <<cmd, args, ctx, from_batch_size, to_batch_size,
                   best_batch_size, best_performance, elapsed, last, cb, f, stdout,
                   samples>>

\* line 238, debug build: to_batch_size - from_batch_size overflows and panics
select_random_overflow ==
    /\ pc = "loop" /\ ~args.ordered
    /\ to_batch_size < from_batch_size
    /\ pc' = "panicked"
    /\ UNCHANGED <<cmd, args, ctx, from_batch_size, to_batch_size, current_batch_size,
                   best_batch_size, best_performance, runner, preheat_processed,
                   total, elapsed, last, cb, f, stdout, trials, samples>>

\* the preheat loop ending at exactly two batches
preheat_done_inclusive(processed, r) == processed >= r.batch_size * 2

\* line 263: the preheat loop ends once more than two batches were processed
preheat_done(processed, r) == processed > r.batch_size * 2

\* the preheat loop also left when the Runner reports done
preheat_exit_on_done(processed, done, r) == done \/ preheat_done(processed, r)

\* lines 260-265: the flag step() returns is dropped (`_`); only the count decides
preheat_exit(processed, done, r) == preheat_done(processed, r)

\* lines 260-269: the body of the preheat loop for a step that returned (p, d);
\* leaving the loop starts the clock (elapsed is the time since `start`)
preheat_body(p, d) ==
    /\ last' = [processed |-> p, done |-> d]
    /\ preheat_processed' = preheat_processed + p
    /\ pc' = IF preheat_exit(preheat_processed', d, runner) THEN "measure" ELSE "preheat"
    /\ elapsed' = 0
    /\ UNCHANGED <<cmd, args, ctx, from_batch_size, to_batch_size, current_batch_size,
                   best_batch_size, best_performance, total, cb, f, stdout, trials,
                   samples>>

\* lines 259-269: one iteration of the preheat loop
preheat_step ==
    /\ pc = "preheat"
    /\ runner.steps < MaxSteps
    /\ \E p \in ProcessedChoices(runner), d \in BOOLEAN : preheat_body(p, d)
    /\ runner' = [runner EXCEPT !.steps = @ + 1]

\* line 280: total as f64 / elapsed.as_secs_f64()
performance_of(tot, ticks) == Frac(tot * TicksPerSec, ticks)

\* the acceptance test without its truncated-throughput conjunct
accepted_without_floor(perf, tot) == FracGe([n |-> tot, d |-> 1], perf)

\* the acceptance test without its total-against-throughput conjunct
accepted_without_window(perf, tot) == AsUsize(perf) > 0

\* line 282: the sample is accepted
accepted(perf, tot) == AsUsize(perf) > 0 /\ FracGe([n |-> tot, d |-> 1], perf)

\* a tie replaces the best too
improves_on_tie(perf, best) == FracGe(perf, best)

\* the comparison turned around
improves_reversed(perf, best) == FracGt(best, perf)

\* line 283: the sample replaces the best
improves(perf, best) == FracGt(perf, best)

\* a finalized sample that reaches the csv only when it is the new best
finalize_record_on_best(perf) ==
    /\ IF improves(perf, best_performance)
       THEN /\ best_batch_size' = current_batch_size
            /\ best_performance' = perf
            /\ stdout' = Append(stdout, <<"best", current_batch_size, AsUsize(perf)>>)
            /\ f' = IF f.open
                    THEN flush(write_record(f, <<current_batch_size, AsUsize(perf)>>))
                    ELSE f
       ELSE /\ UNCHANGED <<best_batch_size, best_performance, f>>
            /\ stdout' = IF args.all
                         THEN Append(stdout, <<"batch", current_batch_size, AsUsize(perf)>>)
                         ELSE stdout
    /\ samples' = Append(samples, [batch_size |-> current_batch_size, performance |-> perf])

\* lines 283-310: what a finalized sample does to the best, stdout and the csv
finalize(perf) ==
    /\ IF improves(perf, best_performance)
       THEN /\ best_batch_size' = current_batch_size
            /\ best_performance' = perf
            /\ stdout' = Append(stdout, <<"best", current_batch_size, AsUsize(perf)>>)
       ELSE /\ UNCHANGED <<best_batch_size, best_performance>>
            /\ stdout' = IF args.all
                         THEN Append(stdout, <<"batch", current_batch_size, AsUsize(perf)>>)
                         ELSE stdout
    /\ f' = IF f.open
            THEN flush(write_record(f, <<current_batch_size, AsUsize(perf)>>))
            ELSE f
    /\ samples' = Append(samples, [batch_size |-> current_batch_size, performance |-> perf])

\* lines 272-313: the body of the measurement loop for a step that returned
\* (p, d) while the clock advanced by dt
measure_body(p, d, dt) ==
    /\ last' = [processed |-> p, done |-> d]
    /\ total' = total + p
    /\ elapsed' = elapsed + dt
    /\ IF elapsed' = 0
       THEN /\ pc' = "measure"
            /\ UNCHANGED <<best_batch_size, best_performance, stdout, f, samples>>
       ELSE LET performance == performance_of(total', elapsed') IN
            IF accepted(performance, total')
            THEN finalize(performance) /\ pc' = "advance"
            ELSE /\ pc' = "measure"
                 /\ UNCHANGED <<best_batch_size, best_performance, stdout, f, samples>>
    /\ UNCHANGED <<cmd, args, ctx, from_batch_size, to_batch_size, current_batch_size,
                   preheat_processed, cb, trials>>

\* lines 271-314: one iteration of the measurement loop
measure_step ==
    /\ pc = "measure"
    /\ runner.steps < MaxSteps
    /\ \E p \in ProcessedChoices(runner), d \in BOOLEAN, dt \in 0..MaxDt :
         measure_body(p, d, dt)
    /\ runner' = [runner EXCEPT !.steps = @ + 1]

\* the sweep advancing by one instead of by the multiple
next_ordered_by_one(current, m) == current + 1

\* line 317
next_ordered(current, m) == current + m

\* an exclusive upper bound
sweep_over_exclusive(current, to) == current >= to

\* line 318
sweep_over(current, to) == current > to

\* the Runner kept alive past the end of the loop body
drop_never(r) == r

\* line 322: `runner` is a local of the loop body and is dropped at its end
drop(r) == NoRunner

\* lines 316-322: the end of the outer loop's body; the trial's Runner and the
\* body's locals (total, start, the preheat count, the last step's result) go
\* out of scope
advance ==
    /\ pc = "advance"
    /\ runner' = drop(runner)
    /\ total' = 0 /\ elapsed' = 0 /\ last' = NoStep /\ preheat_processed' = 0
    /\ IF args.ordered
       THEN /\ current_batch_size' = next_ordered(current_batch_size, ctx.preferred_multiple)
            /\ pc' = IF sweep_over(current_batch_size', to_batch_size) THEN "report" ELSE "loop"
       ELSE /\ current_batch_size' = current_batch_size
            /\ pc' = "loop"
    /\ UNCHANGED <<cmd, args, ctx, from_batch_size, to_batch_size, best_batch_size,
                   best_performance, cb, f, stdout, trials, samples>>

\* lines 325-328
report ==
    /\ pc = "report"
    /\ stdout' = Append(stdout, <<"done", best_batch_size, AsUsize(best_performance)>>)
    /\ pc' = "done"
    /\ UNCHANGED <<cmd, args, ctx, from_batch_size, to_batch_size, current_batch_size,
                   best_batch_size, best_performance, runner, preheat_processed,
                   total, elapsed, last, cb, f, trials, samples>>

\* ------------------------------------------------------------ generate
\* the raw key of the k-th match (keys are opaque; they are told apart by order)
key_of(k) == k

\* lines 106-107: the credential pair derived from a raw key
address_of(key) == <<"address", key>>
mnemonic_of(key) == <<"mnemonic", key>>

\* the comparison off by one
found_continue_inclusive(found, count) == found <= count

\* line 120: the value found returns, true meaning "continue"
found_continue(found, count) == found < count

\* the record written but left in the writer's buffer
found_cb_unflushed(c, key) ==
    [c EXCEPT !.found = @ + 1,
              !.writer = IF c.writer.open
                         THEN write_record(@, <<address_of(key), mnemonic_of(key)>>)
                         ELSE @]

\* lines 103-121: PrintCallback::found; the callback after the call and what it prints
found_cb(c, key) ==
    [c EXCEPT !.found = @ + 1,
              !.writer = IF c.writer.open
                         THEN flush(write_record(@, <<address_of(key), mnemonic_of(key)>>))
                         ELSE @]

found_stdout(c, out, key) ==
    IF c.print THEN Append(out, <<"key", address_of(key), mnemonic_of(key)>>) ELSE out

\* lines 133-161: build the callback and the Runner bound to it
generate_setup ==
    /\ pc = "main" /\ cmd = "generate"
    /\ cb' = [print |-> ~args.output,
              writer |-> IF args.output THEN NewWriter ELSE NoWriter,
              found |-> 0,
              count |-> args.count]
    /\ runner' = prepare(args.batch, TRUE)
    /\ total' = 0
    /\ pc' = "running"
    /\ UNCHANGED <<cmd, args, ctx, from_batch_size, to_batch_size, current_batch_size,
                   best_batch_size, best_performance, preheat_processed, elapsed,
                   last, f, stdout, trials, samples>>

\* line 166, the call: the engine starts a batch; it will report `processed`
\* candidates, has come across `pending` matches, and may have run out of keys
step_call ==
    /\ pc = "running"
    /\ runner.steps < MaxSteps
    /\ \E p \in ProcessedChoices(runner), m \in 0..MaxMatches, x \in BOOLEAN :
         runner' = [runner EXCEPT !.steps = @ + 1, !.processed = p,
                                  !.pending = m, !.exhausted = x]
    /\ pc' = "in_step"
    /\ UNCHANGED <<cmd, args, ctx, from_batch_size, to_batch_size, current_batch_size,
                   best_batch_size, best_performance, preheat_processed, total,
                   elapsed, last, cb, f, stdout, trials, samples>>

\* inside step(): the engine delivers one match to the sink, unless the sink
\* has already answered "stop"
deliver_found ==
    /\ pc = "in_step"
    /\ runner.sink /\ ~runner.stopped /\ runner.pending > 0
    /\ LET key == key_of(cb.found + 1)
       IN /\ cb' = found_cb(cb, key)
          /\ stdout' = found_stdout(cb, stdout, key)
    /\ runner' = [runner EXCEPT !.pending = @ - 1,
                                !.stopped = ~found_continue(cb'.found, cb'.count)]
    /\ UNCHANGED <<cmd, args, ctx, pc, from_batch_size, to_batch_size,
                   current_batch_size, best_batch_size, best_performance,
                   preheat_processed, total, elapsed, last, f, trials, samples>>

\* the report not waiting for a first processed candidate
benchmark_due_at_zero(benchmark, stop, tot) == benchmark /\ ~stop

\* the report printed for the terminal step too
benchmark_due_on_stop(benchmark, stop, tot) == benchmark /\ tot > 0

\* line 169: a benchmark line is printed
benchmark_due(benchmark, stop, tot) == benchmark /\ ~stop /\ tot > 0

\* the loop never left
loop_break_never(stop) == FALSE

\* line 187: the loop is left
loop_break(stop) == stop

\* lines 166-190: step() returns (processed, stop); the rest of the loop body
step_return ==
    /\ pc = "in_step"
    /\ runner.stopped \/ runner.pending = 0
    /\ LET processed == runner.processed
           stop == runner.stopped \/ runner.exhausted
       IN /\ last' = [processed |-> processed, done |-> stop]
          /\ total' = total + processed
          /\ stdout' = IF benchmark_due(args.benchmark, stop, total')
                       THEN Append(stdout, <<"bench", total', runner.batch_size>>)
                       ELSE stdout
          /\ pc' = IF loop_break(stop) THEN "stopped" ELSE "running"
    /\ runner' = [runner EXCEPT !.pending = 0, !.processed = 0]
    /\ UNCHANGED <<cmd, args, ctx, from_batch_size, to_batch_size, current_batch_size,
                   best_batch_size, best_performance, preheat_processed, elapsed,
                   cb, f, trials, samples>>

Next ==
    \/ optimize_setup
    \/ select_ordered
    \/ select_random
    \/ select_random_overflow
    \/ preheat_step
    \/ measure_step
    \/ advance
    \/ report
    \/ generate_setup
    \/ step_call
    \/ deliver_found
    \/ step_return

Spec == Init /\ [][Next]_vars

\* the generate subcommand alone: main dispatches to generate
GenerateInit == Init /\ cmd = "generate"

GenerateNext ==
    \/ generate_setup
    \/ step_call
    \/ deliver_found
    \/ step_return

GenerateSpec == GenerateInit /\ [][GenerateNext]_vars

\* ------------------------------------------- the optimizer under fairness
\* the optimize subcommand alone: main dispatches to optimize; the flags that
\* only select what is written (lines 288-312) are left off
OptimizeInit == Init /\ cmd = "optimize" /\ ~args.output /\ ~args.all

\* the measured time and total are followed up to two seconds' worth
LiveWindow == 2 * TicksPerSec

\* lines 259-267 with no bound on the number of steps: the loop runs for as
\* long as the Runner takes; `positive` selects the steps that processed
\* something
preheat_unbounded(positive) ==
    /\ pc = "preheat"
    /\ \E p \in ProcessedChoices(runner), d \in BOOLEAN :
         /\ positive => p > 0
         /\ preheat_body(p, d)
    /\ UNCHANGED runner

\* lines 271-314 with no bound on the number of steps; `positive` selects the
\* steps that processed something, `ticking` those during which the clock
\* advanced
measure_unbounded(positive, ticking) ==
    /\ pc = "measure"
    /\ \E p \in ProcessedChoices(runner), d \in BOOLEAN, dt \in 0..MaxDt :
         /\ positive => p > 0
         /\ ticking => dt > 0
         /\ p > 0 => total * TicksPerSec < LiveWindow
         /\ elapsed + dt <= LiveWindow
         /\ measure_body(p, d, dt)
    /\ UNCHANGED runner

\* the driver's own statements between two step() calls
driver_step ==
    \/ optimize_setup
    \/ select_ordered
    \/ select_random
    \/ select_random_overflow
    \/ advance
    \/ report

OptimizeNext ==
    \/ driver_step
    \/ preheat_unbounded(FALSE)
    \/ measure_unbounded(FALSE, FALSE)

\* the driver thread keeps running; every Runner returns a positive count
\* again and again, and the wall clock advances
OptimizeFairness ==
    /\ WF_vars(driver_step)
    /\ WF_vars(preheat_unbounded(TRUE))
    /\ WF_vars(measure_unbounded(TRUE, FALSE))
    /\ WF_vars(measure_unbounded(FALSE, TRUE))

FairOptimize == OptimizeInit /\ [][OptimizeNext]_vars /\ OptimizeFairness

\* ------------------------------------------------------------- properties
pm == ctx.preferred_multiple

\* the upper end of the range asked for: --max, or the device maximum for --max 0
EffectiveMax == IF args.max = 0 THEN max_batch_size(ctx.device, pm) ELSE args.max
AlignedMin == align_to_preferred_multiple(args.min, pm)
AlignedMax == align_to_preferred_multiple(EffectiveMax, pm)

Optimizing == cmd = "optimize" /\ pc # "main"
Generating == cmd = "generate" /\ pc # "main"
OrderedRun == Optimizing /\ args.ordered /\ args.min <= EffectiveMax
RandomRun == Optimizing /\ ~args.ordered /\ args.min <= EffectiveMax

\* the records the sink has emitted: printed lines, or the flushed file
Emitted == IF cb.print THEN SelectSeq(stdout, LAMBDA l : l[1] = "key")
           ELSE cb.writer.file

\* C1: in an ordered run with min <= max, every batch size handed to a trial is
\* a multiple of preferred_multiple, lies within [align(min), align(max)], and
\* the i-th trial runs at align(min) + (i-1) * preferred_multiple (max being the
\* device maximum when --max is 0).
C1_OrderedSweepAligned ==
    OrderedRun =>
        \A i \in 1..Len(trials) :
            /\ trials[i] % pm = 0
            /\ AlignedMin <= trials[i] /\ trials[i] <= AlignedMax
            /\ trials[i] = AlignedMin + (i - 1) * pm

C1_Witness ==
    /\ OrderedRun /\ pm = 2 /\ args.max = 1
    /\ Len(trials) = 2 /\ trials[2] = 2

\* C2: in a random-sampling run with min <= max, every batch size handed to a
\* trial is a multiple of preferred_multiple within [align(min), align(max)].
C2_RandomDrawAligned ==
    RandomRun =>
        \A i \in 1..Len(trials) :
            /\ trials[i] % pm = 0
            /\ AlignedMin <= trials[i] /\ trials[i] <= AlignedMax

C2_Witness ==
    /\ RandomRun /\ pm = 2 /\ args.min = 0 /\ args.max = 2
    /\ Len(trials) = 1 /\ trials[1] = 2

\* C3: after the k-th invocation of found the counter is k, k records were
\* emitted, and the value returned was "continue" iff k < count; so the sink
\* answers "stop" on the count-th match, and on the first one when count is 0.
C3_SinkStopsAtCount ==
    Generating =>
        /\ Len(Emitted) = cb.found
        /\ cb.found >= 1 => (runner.stopped <=> ~(cb.found < args.count))
        /\ cb.found = 0 => ~runner.stopped

C3_Witness ==
    /\ Generating /\ args.count = 2 /\ cb.found = 2 /\ runner.stopped

\* C4: the step that returns done = true moves the generate driver from Running
\* to Stopped, a step that returns done = false keeps it in Running, and nothing
\* happens to the Runner once the driver has stopped.
C4_StopsOnDone ==
    [][/\ (pc = "in_step" /\ pc' # "in_step") =>
             /\ last'.done => pc' = "stopped"
             /\ ~last'.done => pc' = "running"
       /\ pc = "stopped" => (pc' = "stopped" /\ runner' = runner /\ cb' = cb)]_vars

C4_Witness ==
    /\ Generating /\ pc = "stopped" /\ last.done /\ runner.steps = 3

\* C5: with count N >= 1, once the sink has answered "stop" no further match is
\* delivered and the driver is not left in Running; the run then has emitted
\* exactly N records, and no record is ever left unflushed.
C5_ExactlyCountRecords ==
    (Generating /\ args.count >= 1) =>
        /\ cb.found <= args.count
        /\ Len(Emitted) <= args.count
        /\ runner.stopped => (cb.found = args.count /\ Len(Emitted) = args.count
                              /\ pc \in {"in_step", "stopped"})
        /\ cb.writer.buf = <<>>
        /\ args.output => Len(cb.writer.file) = cb.found

C5_Witness ==
    /\ Generating /\ args.count = 2 /\ args.output
    /\ pc = "stopped" /\ runner.stopped /\ Len(cb.writer.file) = 2

\* C6: best_performance never decreases, and (best_batch_size, best_performance)
\* changes only when a trial is finalized whose throughput is strictly greater
\* than the best so far, and then to that trial's sample.
C6_BestMonotone ==
    [][/\ FracGe(best_performance', best_performance)
       /\ <<best_batch_size', best_performance'>> # <<best_batch_size, best_performance>> =>
             /\ Len(samples') = Len(samples) + 1
             /\ FracGt(samples'[Len(samples')].performance, best_performance)
             /\ best_performance' = samples'[Len(samples')].performance
             /\ best_batch_size' = samples'[Len(samples')].batch_size]_vars

C6_Witness ==
    /\ Optimizing /\ Len(samples) = 2
    /\ FracGt(samples[1].performance, samples[2].performance)
    /\ best_performance = samples[1].performance
    /\ best_batch_size = samples[1].batch_size

\* C7: the best pair is the sample of maximum throughput among the finalized
\* trials, the earliest one on a tie, and the final report prints that pair.
C7_BestIsMaximum ==
    Optimizing =>
        /\ samples = <<>> => (best_batch_size = 0 /\ best_performance = Zero)
        /\ samples # <<>> =>
             \E i \in 1..Len(samples) :
                 /\ samples[i].batch_size = best_batch_size
                 /\ samples[i].performance = best_performance
                 /\ \A j \in 1..Len(samples) :
                        /\ FracGe(samples[i].performance, samples[j].performance)
                        /\ j < i => FracGt(samples[i].performance, samples[j].performance)
        /\ pc = "done" =>
             /\ samples # <<>>
             /\ stdout[Len(stdout)] = <<"done", best_batch_size, AsUsize(best_performance)>>

C7_Witness ==
    /\ Optimizing /\ pc = "done" /\ Len(samples) = 3
    /\ samples[1].performance = samples[2].performance
    /\ samples[1].batch_size # samples[2].batch_size
    /\ best_batch_size = samples[1].batch_size

\* the number of trials of the ordered sweep
SweepLength == (AlignedMax - AlignedMin) \div pm + 1

\* C8: an ordered run with min <= max runs exactly
\* (align(max) - align(min)) / preferred_multiple + 1 trials, the last one at
\* align(max), and leaves the outer loop after it.
C8_SweepLength ==
    OrderedRun =>
        /\ Len(trials) <= SweepLength
        /\ Len(samples) = SweepLength => pc \in {"advance", "report", "done"}
        /\ pc \in {"report", "done"} =>
             /\ Len(trials) = SweepLength
             /\ Len(samples) = SweepLength
             /\ trials[Len(trials)] = AlignedMax

C8_Witness ==
    /\ OrderedRun /\ pc = "done" /\ Len(trials) = 3 /\ trials[3] = 2

\* C9: a step that returns (0, false) leaves the generate driver in Running and
\* the optimizer in its preheat loop with nothing counted; neither driver stops
\* or fails on it, and no benchmark line is printed while total is 0.
C9_ZeroStepContinues ==
    [][/\ (cmd = "generate" /\ pc = "in_step" /\ pc' # "in_step"
           /\ last' = [processed |-> 0, done |-> FALSE]) =>
             /\ pc' = "running"
             /\ total' = total
             /\ total' = 0 => stdout' = stdout
       /\ (cmd = "optimize" /\ pc = "preheat" /\ runner'.steps = runner.steps + 1
           /\ last' = [processed |-> 0, done |-> FALSE]) =>
             /\ pc' = "preheat"
             /\ preheat_processed' = preheat_processed
             /\ runner'.alive]_vars

C9_Witness ==
    /\ Generating /\ args.benchmark /\ pc = "running"
    /\ runner.steps = 1 /\ last = [processed |-> 0, done |-> FALSE]
    /\ total = 0 /\ stdout = <<>>

\* C10: the alignment is idempotent: aligning the aligned minimum, the aligned
\* maximum, a random candidate or any aligned value again leaves it unchanged.
C10_AlignIdempotent ==
    Optimizing =>
        /\ align_to_preferred_multiple(from_batch_size, pm) = from_batch_size
        /\ args.max # 0 => align_to_preferred_multiple(to_batch_size, pm) = to_batch_size
        /\ ~args.ordered =>
             \A i \in 1..Len(trials) :
                 align_to_preferred_multiple(trials[i], pm) = trials[i]
        /\ \A x \in 0..(MaxArg + MaxRnd) :
               align_to_preferred_multiple(align_to_preferred_multiple(x, pm), pm)
                   = align_to_preferred_multiple(x, pm)

C10_Witness ==
    /\ Optimizing /\ pm = 2 /\ args.min = 1 /\ from_batch_size = 2
    /\ ~args.ordered /\ Len(trials) = 1

\* C11: a trial is past its measurement loop, with its sample finalized, exactly
\* when the elapsed time is not zero, the throughput truncated to an integer is
\* positive and the total is at least the throughput; while the trial is still
\* measuring the three do not hold together, and a trial whose elapsed time is
\* still zero has not ended. The finalized sample is total over elapsed.
C11_TrialEndsIffAccepted ==
    (Optimizing /\ pc \in {"measure", "advance"}) =>
        /\ (pc = "advance") <=>
              /\ elapsed # 0
              /\ (total * TicksPerSec) \div elapsed > 0
              /\ total * elapsed >= total * TicksPerSec
        /\ elapsed = 0 => pc = "measure"
        /\ pc = "measure" => Len(samples) = Len(trials) - 1
        /\ pc = "advance" =>
              /\ Len(samples) = Len(trials)
              /\ samples[Len(samples)].batch_size = current_batch_size
              /\ samples[Len(samples)].performance.n * elapsed
                    = total * TicksPerSec * samples[Len(samples)].performance.d

C11_Witness ==
    /\ Optimizing /\ pc = "advance" /\ runner.steps = MaxSteps
    /\ elapsed = TicksPerSec /\ total > 0 /\ Len(samples) = 1

\* C12: the measurement loop is entered only from the preheat loop, and only
\* by the preheat step that brings the cumulative preheat count strictly above
\* twice the Runner's batch size; until then the measured total and the clock
\* stay at zero, so the measurement starts from total = 0 at elapsed = 0, and
\* every measured step adds its own count to the total and nothing to the
\* preheat count.
C12_MeasureOnlyAfterPreheat ==
    [][/\ (pc' = "measure" /\ pc # "measure") =>
             /\ pc = "preheat"
             /\ preheat_processed' > 2 * runner.batch_size
             /\ total' = 0 /\ elapsed' = 0
       /\ pc = "preheat" =>
             /\ total' = 0 /\ elapsed' = 0
             /\ preheat_processed <= 2 * runner.batch_size
             /\ preheat_processed' = preheat_processed + last'.processed
       /\ (pc = "measure" /\ runner'.steps # runner.steps) =>
             /\ total' = total + last'.processed
             /\ preheat_processed' = preheat_processed]_vars

C12_Witness ==
    /\ Optimizing /\ pc = "measure" /\ runner.batch_size = 2 /\ runner.steps = 4
    /\ preheat_processed = 6 /\ total = 0 /\ elapsed = 0

\* the largest throughput among the first k finalized samples, 0.0 when none
RECURSIVE BestOfFirst(_, _)
BestOfFirst(s, k) ==
    IF k = 0 THEN Zero
    ELSE LET b == BestOfFirst(s, k - 1) IN
         IF s[k].performance.n * b.d > b.n * s[k].performance.d
         THEN s[k].performance ELSE b

\* the k-th finalized sample is strictly above every earlier one
Improved(s, k) ==
    LET b == BestOfFirst(s, k - 1) IN s[k].performance.n * b.d > b.n * s[k].performance.d

\* the per-trial lines the first k finalized samples put on stdout
RECURSIVE TrialLines(_, _)
TrialLines(s, k) ==
    IF k = 0 THEN <<>>
    ELSE LET floor == s[k].performance.n \div s[k].performance.d IN
         IF Improved(s, k)
         THEN Append(TrialLines(s, k - 1), <<"best", s[k].batch_size, floor>>)
         ELSE IF args.all
              THEN Append(TrialLines(s, k - 1), <<"batch", s[k].batch_size, floor>>)
              ELSE TrialLines(s, k - 1)

\* C13: with an output path the csv holds, flushed, exactly one record per
\* finalized trial, in order, each the trial's batch size and its throughput
\* truncated to an integer, whether or not the trial improved on the best;
\* without an output path nothing is written. On stdout a finalized trial
\* prints a "best" line iff it is strictly above every earlier sample, a plain
\* line iff it is not and `all` is set, and nothing otherwise.
C13_RecordPerTrial ==
    Optimizing =>
        /\ args.output =>
              /\ f.open /\ f.buf = <<>>
              /\ Len(f.file) = Len(samples)
              /\ \A i \in 1..Len(samples) :
                    f.file[i] = <<samples[i].batch_size,
                                  samples[i].performance.n \div samples[i].performance.d>>
        /\ ~args.output => (~f.open /\ f.file = <<>>)
        /\ SelectSeq(stdout, LAMBDA l : l[1] \in {"best", "batch"})
              = TrialLines(samples, Len(samples))

C13_Witness ==
    /\ Optimizing /\ args.output /\ ~args.all
    /\ Len(samples) = 2 /\ ~Improved(samples, 2)
    /\ Len(f.file) = 2 /\ Len(stdout) = 1

\* the benchmark reports printed so far
BenchLines == SelectSeq(stdout, LAMBDA l : l[1] = "bench")

\* C14: in generate, the return of a step prints one benchmark report, carrying
\* the running total, iff the benchmark flag is set, the step returned
\* done = false and the running total is above zero; the terminal step prints
\* none, a run without the flag prints none, and nothing but the return of a
\* step prints one.
C14_BenchmarkReportIff ==
    [][/\ (pc = "in_step" /\ pc' # "in_step") =>
             IF args.benchmark /\ ~last'.done /\ total' > 0
             THEN /\ Len(stdout') = Len(stdout) + 1
                  /\ stdout'[Len(stdout')][1] = "bench"
                  /\ stdout'[Len(stdout')][2] = total'
             ELSE stdout' = stdout
       /\ ~(pc = "in_step" /\ pc' # "in_step") => BenchLines' = BenchLines
       /\ last'.done => BenchLines' = BenchLines
       /\ ~args.benchmark => BenchLines' = <<>>]_vars

C14_Witness ==
    /\ Generating /\ args.benchmark /\ pc = "stopped"
    /\ runner.steps = 2 /\ last.done /\ last.processed > 0
    /\ Len(BenchLines) = 1 /\ BenchLines[1][2] < total

\* C15: the optimizer holds at most one Runner: a Runner is alive exactly from
\* the start of its trial to the end of that trial's loop body, no Runner is
\* alive when the next one is built, at the final report or after it, the live
\* Runner is the one built for the latest trial, and trial k is finalized
\* before trial k + 1 is started.
C15_OneRunnerAtATime ==
    Optimizing =>
        /\ runner.alive <=> pc \in {"preheat", "measure", "advance"}
        /\ ~runner.alive => (runner = NoRunner /\ total = 0 /\ elapsed = 0)
        /\ runner.alive =>
              /\ Len(trials) >= 1
              /\ runner = [prepare(trials[Len(trials)], FALSE) EXCEPT !.steps = runner.steps]
        /\ pc \in {"preheat", "measure"} => Len(samples) = Len(trials) - 1
        /\ pc \in {"loop", "advance", "report", "done"} => Len(samples) = Len(trials)

C15_Witness ==
    /\ Optimizing /\ pc = "preheat" /\ Len(trials) = 2 /\ Len(samples) = 1
    /\ trials[1] # trials[2]
    /\ runner.alive /\ runner.steps = 0 /\ runner.batch_size = trials[2]

\* C16: with ordered = false the optimizer never leaves its outer loop on its
\* own: it is always at the loop head or inside a trial, never at the final
\* report, past it, or ended by a failure of its own.
C16_RandomNeverLeavesLoop ==
    (Optimizing /\ ~args.ordered) => pc \in {"loop", "preheat", "measure", "advance"}

\* C17: when the aligned maximum equals the aligned minimum the range has zero
\* width and every trial runs at the aligned minimum: the random offset is 0
\* for every draw, the random run does not fail on the empty range, and the
\* ordered sweep has that one trial only.
C17_SinglePointRange ==
    (Optimizing /\ AlignedMax = AlignedMin) =>
        /\ to_batch_size = from_batch_size
        /\ \A rnd \in 0..MaxRnd : random_val(rnd, from_batch_size, to_batch_size) = 0
        /\ pc # "panicked"
        /\ \A i \in 1..Len(trials) : trials[i] = AlignedMin
        /\ \A i \in 1..Len(samples) : samples[i].batch_size = AlignedMin
        /\ args.ordered => Len(trials) <= 1
        /\ (args.ordered /\ pc = "done") => Len(trials) = 1

C17_Witness ==
    /\ Optimizing /\ ~args.ordered /\ pm = 2 /\ args.min = 1 /\ args.max = 2
    /\ Len(samples) = 1 /\ samples[1].batch_size = 2

\* C18: for a positive total and a positive elapsed time the acceptance test
\* holds iff at least one second has elapsed and the total is at least the
\* elapsed time in seconds; so a trial with a positive total is past its
\* measurement loop iff both hold, no trial is finalized before one second of
\* measurement, and none is finalized with a total of zero.
C18_OneSecondWindow ==
    /\ pc = "main" =>
          \A e \in 1..(MaxSteps * MaxDt * TicksPerSec) :
              /\ ~accepted(performance_of(0, e), 0)
              /\ \A t \in 1..(MaxSteps * MaxArg) :
                    accepted(performance_of(t, e), t)
                        <=> (e >= TicksPerSec /\ t * TicksPerSec >= e)
    /\ (Optimizing /\ pc \in {"measure", "advance"} /\ total > 0 /\ elapsed > 0) =>
          ((pc = "advance") <=> (elapsed >= TicksPerSec /\ total * TicksPerSec >= elapsed))
    /\ (Optimizing /\ pc = "advance") => (elapsed >= TicksPerSec /\ total > 0)
    /\ (Optimizing /\ pc = "measure" /\ total = 0) => Len(samples) = Len(trials) - 1

C18_Witness ==
    /\ Optimizing /\ pc = "measure" /\ total = 2 * runner.batch_size
    /\ elapsed > 0 /\ elapsed < TicksPerSec /\ runner.steps = MaxSteps

C20_OrderedRunsOneTrial ==
    (Optimizing /\ args.ordered) =>
        /\ Len(trials) >= 1 => trials[1] = AlignedMin
        /\ pc \in {"report", "done"} => (Len(trials) >= 1 /\ Len(samples) = Len(trials))
        /\ AlignedMin > AlignedMax =>
              /\ Len(trials) <= 1
              /\ \A i \in 1..Len(trials) : trials[i] = AlignedMin /\ trials[i] > AlignedMax
              /\ pc = "advance" => best_batch_size = AlignedMin
              /\ pc \in {"report", "done"} =>
                    /\ Len(trials) = 1
                    /\ best_batch_size = AlignedMin
                    /\ best_performance = samples[1].performance
              /\ pc = "done" =>
                    stdout[Len(stdout)] = <<"done", AlignedMin,
                                            best_performance.n \div best_performance.d>>

C20_Witness ==
    /\ Optimizing /\ args.ordered /\ pc = "done"
    /\ args.min = 2 /\ args.max = 1 /\ pm = 1
    /\ Len(trials) = 1 /\ trials[1] = 2 /\ best_batch_size = 2

====
